---- MODULE Spec2Model ----
\* Wi-Fi provisioning manager (src/src/wifimanager): the credential store
\* (nvs.rs) and the connection supervisor (mod.rs).
EXTENDS Integers, Sequences, FiniteSets, TLC

\* ---------------------------------------------------------------- bounds
\* Longest passphrase (in bytes) that the harness submits or saves.
MaxPskLen == 1
\* Submissions the portal side makes in one run.
MaxSubmits == 2
\* The clock stops here (milliseconds since boot).
MaxTime == 2600
\* Values signalled on stop_signal in one run.
MaxStops == 3

\* ------------------------------------------------------- program constants
\* nvs.rs:70,78-79: the in-memory buffer and the flash window are 1024 bytes.
BufLen == 1024

\* ------------------------------------------------------------------ bytes
\* The bytes the model names: JSON's quote and backslash, a letter, and the
\* value of erased flash.
Byte == [quote |-> 34, bslash |-> 92, a |-> 97, erased |-> 255]
QUOTE == Byte.quote
BSLASH == Byte.bslash
LetterA == Byte.a
ErasedByte == Byte.erased

\* All byte strings over alphabet A of length 0..n.
RECURSIVE StringsUpTo(_, _)
StringsUpTo(A, n) ==
    IF n = 0 THEN {<<>>}
    ELSE LET shorter == StringsUpTo(A, n - 1)
         IN shorter \cup {Append(s, c) : s \in {t \in shorter : Len(t) = n - 1}, c \in A}


\* Passphrases: ordinary letters, and the two characters JSON escapes.
PskAlphabet == {LetterA, QUOTE, BSLASH}
Psks == StringsUpTo(PskAlphabet, MaxPskLen)
Ssids == {<<LetterA>>, <<98, 98, 98>>}

\* AutoSetupSettings: the persisted credential record.
AutoSetupSettings == [ssid : Ssids, psk : Psks]

\* A record whose passphrase is longer than the whole buffer.
LongRecord == [ssid |-> <<LetterA>>, psk |-> [i \in 1..(BufLen + 1) |-> LetterA]]

NoRecord == [ssid |-> <<>>, psk |-> <<>>]
None == [some |-> FALSE, val |-> NoRecord]
Some(r) == [some |-> TRUE, val |-> r]

\* ------------------------------------------------ serde_json_core::to_slice
\* The serializer writes a string between quotes and escapes '"' and '\'.
EscapeByte(c) == IF c \in {QUOTE, BSLASH} THEN <<BSLASH, c>> ELSE <<c>>

RECURSIVE EscapeStr(_)
EscapeStr(s) ==
    IF s = <<>> THEN <<>>
    ELSE IF Len(s) = 1 THEN EscapeByte(s[1])
    ELSE LET h == Len(s) \div 2
         IN EscapeStr(SubSeq(s, 1, h)) \o EscapeStr(SubSeq(s, h + 1, Len(s)))

KeySsid == <<QUOTE, 115, 115, 105, 100, QUOTE>>
KeyPsk == <<QUOTE, 112, 115, 107, QUOTE>>

\* {"ssid":"<ssid>","psk":"<psk>"}
Serialize(r) ==
    <<123>> \o KeySsid \o <<58, QUOTE>> \o EscapeStr(r.ssid) \o <<QUOTE, 44>>
            \o KeyPsk \o <<58, QUOTE>> \o EscapeStr(r.psk) \o <<QUOTE, 125>>

\* to_slice(settings, &mut buf): writes from the start of buf, leaves the rest
\* of buf as it was; fails (after writing what fits) when buf is too short.
\* to_slice with the check of the remaining room left out.
ToSliceFitsAlways(r, b) == TRUE

ToSliceFits(r, b) == Len(Serialize(r)) <= Len(b)

\* The serialisation of r is longer than SavedSettings.buf.
TooLong(r) == Len(Serialize(r)) > BufLen
ToSlice(r, b) ==
    LET ser == Serialize(r)
    IN ser \o SubSeq(b, Len(ser) + 1, Len(b))

\* ---------------------------------------------- serde_json_core::from_slice
IsWs(c) == c \in {32, 9, 10, 13}

RECURSIVE SkipWs(_, _)
SkipWs(b, p) == IF p <= Len(b) /\ IsWs(b[p]) THEN SkipWs(b, p + 1) ELSE p

\* Position after `lit`, found at p after optional whitespace; 0 is an error,
\* and an error at an earlier token (p = 0) stays an error.
Expect(b, p, lit) ==
    IF p = 0 THEN 0
    ELSE LET q == SkipWs(b, p)
         IN IF q + Len(lit) - 1 <= Len(b) /\ SubSeq(b, q, q + Len(lit) - 1) = lit
            THEN q + Len(lit) ELSE 0

\* parse_str: the number of backslashes in a row that end at position i.
RECURSIVE BackslashRun(_, _)
BackslashRun(b, i) ==
    IF i >= 1 /\ b[i] = BSLASH THEN 1 + BackslashRun(b, i - 1) ELSE 0

\* parse_str: a quote closes the string when the number of backslashes right
\* before it is even.
IsClosingQuote(b, i) == b[i] = QUOTE /\ BackslashRun(b, i - 1) % 2 = 0

\* The first closing quote in lo..hi, or 0 when there is none.
RECURSIVE FirstClose(_, _, _)
FirstClose(b, lo, hi) ==
    IF lo > hi THEN 0
    ELSE IF lo = hi THEN (IF IsClosingQuote(b, lo) THEN lo ELSE 0)
    ELSE LET mid == (lo + hi) \div 2
             left == FirstClose(b, lo, mid)
         IN IF left # 0 THEN left ELSE FirstClose(b, mid + 1, hi)

\* parse_str from position p (after the opening quote): the position of the
\* closing quote; 0 when the input ends inside the string.
StrClose(b, p) == IF p = 0 THEN 0 ELSE FirstClose(b, p, Len(b))

\* parse_str returns the bytes between the quotes as they are (from_slice has
\* no unescape buffer), and rejects bytes that are not UTF-8.
IsUtf8(s) == \A i \in 1..Len(s) : s[i] < 128

\* FromSlice without the check for trailing characters (Deserializer::end).
FromSliceNoEnd(b) ==
    LET p1 == Expect(b, Expect(b, Expect(b, Expect(b, 1, <<123>>), KeySsid), <<58>>), <<QUOTE>>)
        c1 == StrClose(b, p1)
        p2 == Expect(b, Expect(b, Expect(b, Expect(b, IF c1 = 0 THEN 0 ELSE c1 + 1,
                      <<44>>), KeyPsk), <<58>>), <<QUOTE>>)
        c2 == StrClose(b, p2)
        p3 == Expect(b, IF c2 = 0 THEN 0 ELSE c2 + 1, <<125>>)
    IN IF p3 # 0
          /\ IsUtf8(SubSeq(b, p1, c1 - 1)) /\ IsUtf8(SubSeq(b, p2, c2 - 1))
       THEN Some([ssid |-> SubSeq(b, p1, c1 - 1), psk |-> SubSeq(b, p2, c2 - 1)])
       ELSE None

\* from_slice::<AutoSetupSettings>(bytes): the record, or None for any parse
\* error (also for trailing characters after the closing brace).
FromSlice(b) ==
    LET p1 == Expect(b, Expect(b, Expect(b, Expect(b, 1, <<123>>), KeySsid), <<58>>), <<QUOTE>>)
        c1 == StrClose(b, p1)
        p2 == Expect(b, Expect(b, Expect(b, Expect(b, IF c1 = 0 THEN 0 ELSE c1 + 1,
                      <<44>>), KeyPsk), <<58>>), <<QUOTE>>)
        c2 == StrClose(b, p2)
        p3 == Expect(b, IF c2 = 0 THEN 0 ELSE c2 + 1, <<125>>)
    IN IF p3 # 0 /\ SkipWs(b, p3) = Len(b) + 1
          /\ IsUtf8(SubSeq(b, p1, c1 - 1)) /\ IsUtf8(SubSeq(b, p2, c2 - 1))
       THEN Some([ssid |-> SubSeq(b, p1, c1 - 1), psk |-> SubSeq(b, p2, c2 - 1)])
       ELSE None

\* load: position of the first zero byte, or the buffer length (nvs.rs:86-89).
\* The first index in lo..hi that holds a zero byte, or 0 when none does.
RECURSIVE FirstZero(_, _, _)
FirstZero(b, lo, hi) ==
    IF lo > hi THEN 0
    ELSE IF lo = hi THEN (IF b[lo] = 0 THEN lo ELSE 0)
    ELSE LET mid == (lo + hi) \div 2
             left == FirstZero(b, lo, mid)
         IN IF left # 0 THEN left ELSE FirstZero(b, mid + 1, hi)

\* EndPos without the search for the sentinel.
EndPosNoSentinel(b) == Len(b)

EndPos(b) ==
    LET z == FirstZero(b, 1, Len(b))
    IN IF z = 0 THEN Len(b) ELSE z - 1

\* ================================================================ state
VARIABLES
    region,     \* the 1024-byte flash window of the NVS partition (Nvs.region)
    buf,        \* SavedSettings.buf
    loaded,     \* the Option returned by load(), when load() was the last call
    endPos,     \* end_pos computed by that load()
    lastOp,     \* the last store call and how it ended
    hist,       \* "F" after a save of a record too long for buf, "FL" after the
                \* load that follows it,
                \* "S" after a first save on a new store, "SL" after the load
                \* that follows it, "new" before and "other" elsewhere
    saved,      \* the record of the last save() that returned Ok
    \* --- init_wm and wifi_connection_worker (mod.rs)
    pc,             \* where the supervisor is
    now,            \* milliseconds since boot (embassy_time::Instant)
    settings,       \* WmSettings
    radioMode,      \* the ModeConfig last applied with controller.set_config
    configuration,  \* the ModeConfig built at mod.rs:63, handed to the worker
    wifi_setup,     \* the Option loaded at mod.rs:44
    storedAttempt,  \* result of the stored-credential attempt (mod.rs:50-51)
    apStarted,      \* spawn_ap has started the access point and its DHCP
    dhcpUp,         \* the DHCP server of the access point is running
    endSignalled,   \* wm_signals.signal_end() has been called
    sig,            \* wm_signals.wifi_conn_info_sig: the single slot
    setup_info,     \* the submission the worker took from the slot
    start_time,     \* wifi_connection_worker: start_time
    last_scan,      \* wifi_connection_worker: last_scan
    scanBuf,        \* wm_signals.wifi_scan_res
    resetAt,        \* the time at which the reset check fired, -1 before
    provConnected,  \* a submitted credential has connected
    subLog,         \* every submission so far, in order
    seenAt,         \* Len(subLog) when the worker last took a submission
    pending,        \* submissions since the worker last took one
    consumed,       \* submissions the worker has taken
    connAttempts,   \* connection attempts made with submitted credentials
    \* --- the captive portal (http.rs) and the scan buffer's mutex
    lastReq,        \* the last HTTP request a web task served
    lastResp,       \* the response it got
    scanLock,       \* who holds wm_signals.wifi_scan_res across a suspension
    scan_res,       \* wifi_connection_worker: scan_res, the result of the last scan
    webTask,        \* what each web_task of the pool is doing
    \* --- the connection task (mod.rs:195-249)
    cpc,                  \* where the connection task is
    staState,             \* esp_radio::wifi::sta_state()
    stop_signal,          \* the single slot of stop_signal
    radioOn,              \* the controller is started (start_async after stop_async)
    wifi_reconnect_time,  \* the task's first argument
    lastDownAt,           \* when the station last went down or a connect failed
    stopLog               \* the values signalled on stop_signal so far, in order

storeVars == <<region, buf, loaded, endPos, lastOp, hist, saved>>
wmVars == <<pc, now, settings, radioMode, configuration, wifi_setup, storedAttempt,
            apStarted, dhcpUp, endSignalled, sig, setup_info, start_time, last_scan,
            scanBuf, resetAt, provConnected, subLog, seenAt, pending, consumed,
            connAttempts, lastReq, lastResp, scanLock, scan_res, webTask,
            cpc, staState, stop_signal, radioOn, wifi_reconnect_time, lastDownAt, stopLog>>
supVars == <<pc, now, settings, radioMode, configuration, wifi_setup, storedAttempt,
             apStarted, dhcpUp, endSignalled, sig, setup_info, start_time, last_scan,
             scanBuf, resetAt, provConnected, subLog, seenAt, pending, consumed,
             connAttempts>>
portalVars == <<lastReq, lastResp, scanLock>>
taskVars == <<scan_res, webTask>>
connVars == <<cpc, staState, stop_signal, radioOn, wifi_reconnect_time, lastDownAt, stopLog>>
vars == <<storeVars, wmVars>>

\* No request was served yet, and nobody holds the scan buffer.
NoRequest == [method |-> "none", path |-> "", body |-> NoRecord]
NoResponse == [status |-> 0, body |-> <<>>]
PortalIdle == lastReq = NoRequest /\ lastResp = NoResponse /\ scanLock = "none"

\* http.rs:9: const WEB_TASK_POOL_SIZE: usize = 2;
WEB_TASK_POOL_SIZE == 2

\* http.rs:91: for id in 0..WEB_TASK_POOL_SIZE
WebIds == 0..(WEB_TASK_POOL_SIZE - 1)
Unspawned == [id \in WebIds |-> "unspawned"]
Spawned == [id \in WebIds |-> "idle"]

\* stop_signal carries a bool; an empty slot holds no value.
NoStop == [some |-> FALSE, val |-> FALSE]

\* The connection task is not spawned.
ConnIdle ==
    /\ cpc = "unspawned"
    /\ staState = "Disconnected"
    /\ stop_signal = NoStop
    /\ radioOn = FALSE
    /\ wifi_reconnect_time = 0
    /\ lastDownAt = -1
    /\ stopLog = <<>>

\* No scan has run yet.
NoScan == [ok |-> FALSE, aps |-> <<>>]
TasksIdle == scan_res = NoScan

Zeros == [i \in 1..BufLen |-> 0]
Erased == [i \in 1..BufLen |-> ErasedByte]

\* A record written by an earlier boot (save's serialization, zero tail).
StoredRegions == {ToSlice(r, Zeros) : r \in AutoSetupSettings}

\* Flash contents without any zero byte that are not a stored record: erased
\* flash, a record followed by erased bytes, a record cut short, letters.
GarbageRegions ==
    {Erased, [i \in 1..BufLen |-> LetterA], [i \in 1..BufLen |-> 123]}
    \cup {ToSlice(r, Erased) : r \in {s \in AutoSetupSettings : Len(s.psk) <= 1}}
    \cup {ToSlice(r, [i \in 1..BufLen |-> QUOTE]) : r \in {s \in AutoSetupSettings : Len(s.psk) = 0}}
    \cup {[i \in 1..BufLen |-> IF i <= 9 THEN Serialize([ssid |-> <<LetterA>>, psk |-> <<>>])[i]
                               ELSE LetterA]}

\* No supervisor runs.
SupIdle ==
    /\ pc = "idle"
    /\ now = 0
    /\ settings = [wifi_conn_timeout |-> 0, wifi_scan_interval |-> 0,
                   esp_reset_timeout |-> [some |-> FALSE, val |-> 0],
                   esp_restart_after_connection |-> FALSE]
    /\ radioMode = "None"
    /\ configuration = "None"
    /\ wifi_setup = None
    /\ storedAttempt = "none"
    /\ apStarted = FALSE
    /\ dhcpUp = FALSE
    /\ endSignalled = FALSE
    /\ sig = None
    /\ setup_info = None
    /\ start_time = 0
    /\ last_scan = 0
    /\ scanBuf = <<>>
    /\ resetAt = -1
    /\ provConnected = FALSE
    /\ subLog = <<>>
    /\ seenAt = 0
    /\ pending = 0
    /\ consumed = 0
    /\ connAttempts = 0
    /\ PortalIdle
    /\ TasksIdle
    /\ webTask = Unspawned

\* No supervisor and no connection task run: the store is exercised on its
\* own.
WmIdle == SupIdle /\ ConnIdle

\* SavedSettings::new: buf is zeroed; the flash holds whatever it held.
StoreInit ==
    /\ region \in {Zeros} \cup GarbageRegions \cup StoredRegions
    /\ buf = Zeros
    /\ loaded = None
    /\ endPos = 0
    /\ lastOp = "new"
    /\ hist = "new"
    /\ saved = None
    /\ WmIdle

\* Nvs::read: copies the window into buf; a failed read leaves buf as it was.
NvsRead(ok) == IF ok THEN region ELSE buf

\* Nvs::write: writes buf[..size] over the whole window.
NvsWrite(b) == SubSeq(b, 1, BufLen)

\* SavedSettings::load. The result of the read is dropped (`let _ =`), and
\* whatever buf then holds is parsed up to the first zero byte.
Load(readOk) ==
    LET b == NvsRead(readOk)
        e == EndPos(b)
    IN /\ buf' = b
       /\ endPos' = e
       /\ loaded' = FromSlice(SubSeq(b, 1, e))
       /\ lastOp' = IF readOk THEN "load" ELSE "load_readfail"
       /\ hist' = IF hist = "S" /\ readOk THEN "SL"
                  ELSE IF hist = "F" /\ readOk THEN "FL" ELSE "other"
       /\ UNCHANGED <<region, saved>>

\* save: buf.fill(0)
FillZero(b) == SubSeq(Zeros, 1, Len(b))

\* SavedSettings::save. A record that does not fit leaves buf filled with the
\* part that was written and returns the error before any flash write; a
\* failed flash write returns the error too.
Save(r, writeOk) ==
    LET z == FillZero(buf)
    IN IF ~ToSliceFits(r, z)
       THEN /\ buf' = SubSeq(Serialize(r), 1, BufLen)
            /\ lastOp' = "save_err"
            /\ hist' = IF TooLong(r) THEN "F" ELSE "other"
            /\ loaded' = None
            /\ endPos' = 0
            /\ UNCHANGED <<region, saved>>
       ELSE /\ buf' = ToSlice(r, z)
            /\ region' = IF writeOk THEN NvsWrite(buf') ELSE region
            /\ saved' = IF writeOk THEN Some(r) ELSE saved
            /\ lastOp' = IF writeOk THEN "save_ok" ELSE "save_err"
            /\ hist' = IF TooLong(r) THEN "F"
                       ELSE IF hist = "new" /\ writeOk THEN "S" ELSE "other"
            /\ loaded' = None
            /\ endPos' = 0

StoreLoad == (\E readOk \in BOOLEAN : Load(readOk)) /\ UNCHANGED wmVars
StoreSave ==
    /\ \E r \in AutoSetupSettings, writeOk \in BOOLEAN : Save(r, writeOk)
    /\ UNCHANGED wmVars

StoreSaveLong == Save(LongRecord, TRUE) /\ UNCHANGED wmVars

StoreNext == StoreLoad \/ StoreSave \/ StoreSaveLong
StoreSpec == StoreInit /\ [][StoreNext]_vars

\* ================================================================ init_wm
\* Timer::after_millis(ms) and the other awaits: the wait ends on time or one
\* scheduling slot late.
Durations(ms) == {ms, ms + 100}

\* WmSettings the caller may pass.
SettingsSet ==
    [wifi_conn_timeout : {200},
     wifi_scan_interval : {200, 400},
     esp_reset_timeout : {[some |-> FALSE, val |-> 0], [some |-> TRUE, val |-> 300],
                          [some |-> TRUE, val |-> 500]},
     esp_restart_after_connection : BOOLEAN]

\* What the flash holds at boot: nothing, erased bytes, or a record.
BootRegions ==
    {Zeros, Erased, ToSlice([ssid |-> <<LetterA>>, psk |-> <<LetterA>>], Zeros)}

WmInit ==
    /\ region \in BootRegions
    /\ buf = Zeros
    /\ loaded = None
    /\ endPos = 0
    /\ lastOp = "new"
    /\ hist = "new"
    /\ saved = None
    /\ pc = "init"
    /\ now = 0
    /\ settings \in SettingsSet
    /\ radioMode = "None"
    /\ configuration = "None"
    /\ wifi_setup = None
    /\ storedAttempt = "none"
    /\ apStarted = FALSE
    /\ dhcpUp = FALSE
    /\ endSignalled = FALSE
    /\ sig = None
    /\ setup_info = None
    /\ start_time = 0
    /\ last_scan = 0
    /\ scanBuf = <<>>
    /\ resetAt = -1
    /\ provConnected = FALSE
    /\ subLog = <<>>
    /\ seenAt = 0
    /\ pending = 0
    /\ consumed = 0
    /\ connAttempts = 0
    /\ PortalIdle
    /\ TasksIdle
    /\ webTask = Unspawned
    /\ ConnIdle

\* The supervisor moves to `to`; nothing else of the supervisor changes.
Goto(to) ==
    /\ pc' = to
    /\ UNCHANGED <<now, settings, radioMode, configuration, wifi_setup, storedAttempt,
                   apStarted, dhcpUp, endSignalled, sig, setup_info, start_time,
                   last_scan, scanBuf, resetAt, provConnected, subLog, seenAt, pending,
                   consumed, connAttempts>>
    /\ UNCHANGED portalVars
    /\ UNCHANGED taskVars
    /\ UNCHANGED connVars

\* mod.rs:37-48 with the result of a bring-up call dropped instead of `?`.
BringUpErrIgnored(ok) == FALSE

\* mod.rs:37-48: every bring-up call ends in `?`, so its error is returned.
BringUpErr(ok) == ~ok

\* mod.rs:37-42: esp_radio::init, wifi::new, set_power_saving and
\* SavedSettings::new; each failure returns the error. With all of them done
\* the controller exists and no configuration is applied yet.
InitRadio ==
    /\ pc = "init"
    /\ \E ok \in BOOLEAN :
         /\ pc' = IF BringUpErr(ok) THEN "ret_err" ELSE "load"
         /\ radioMode' = IF ok THEN "Created" ELSE radioMode
    /\ UNCHANGED <<now, settings, configuration, wifi_setup, storedAttempt, apStarted,
                   dhcpUp, endSignalled, sig, setup_info, start_time, last_scan, scanBuf,
                   resetAt, provConnected, subLog, seenAt, pending, consumed,
                   connAttempts>>
    /\ UNCHANGED storeVars
    /\ UNCHANGED portalVars
    /\ UNCHANGED taskVars
    /\ UNCHANGED connVars

\* nvs.rs:94-97 with a region that holds no record reported as an error.
LoadErrOnNone(data) == ~data.some

\* nvs.rs:94-97: load() ends in Ok(Some(data)) or Ok(None) and never in Err,
\* so the `?` of mod.rs:44 never returns.
LoadErr(data) == FALSE

\* mod.rs:44: storage.load()?
InitLoad ==
    /\ pc = "load"
    /\ \E readOk \in BOOLEAN : Load(readOk)
    /\ wifi_setup' = IF LoadErr(loaded') THEN wifi_setup ELSE loaded'
    /\ pc' = IF LoadErr(loaded') THEN "ret_err" ELSE "radio_start"
    /\ UNCHANGED <<now, settings, radioMode, configuration, storedAttempt, apStarted,
                   dhcpUp, endSignalled, sig, setup_info, start_time, last_scan, scanBuf,
                   resetAt, provConnected, subLog, seenAt, pending, consumed,
                   connAttempts>>
    /\ UNCHANGED portalVars
    /\ UNCHANGED taskVars
    /\ UNCHANGED connVars

\* mod.rs:47-48: set_config(client configuration of wifi_setup), start_async.
InitRadioStart ==
    /\ pc = "radio_start"
    /\ \E ok \in BOOLEAN :
         /\ pc' = IF BringUpErr(ok) THEN "ret_err" ELSE "try_stored"
         /\ radioMode' = IF ok THEN "Client" ELSE radioMode
    /\ UNCHANGED <<now, settings, configuration, wifi_setup, storedAttempt, apStarted,
                   dhcpUp, endSignalled, sig, setup_info, start_time, last_scan, scanBuf,
                   resetAt, provConnected, subLog, seenAt, pending, consumed,
                   connAttempts>>
    /\ UNCHANGED storeVars
    /\ UNCHANGED portalVars
    /\ UNCHANGED taskVars
    /\ UNCHANGED connVars

\* utils::try_to_wifi_connect(controller, timeout): whether the station
\* connected, within `timeout` milliseconds. Without credentials it cannot.
TryToWifiConnect(creds, timeout) ==
    {[connected |-> c, took |-> d] :
        c \in (IF creds.some THEN BOOLEAN ELSE {FALSE}), d \in {100, timeout}}

\* mod.rs:53 with the mutation `if true`.
EntersProvisioningAlways(wifi_connected) == TRUE

\* mod.rs:53: if !wifi_connected
EntersProvisioning(wifi_connected) == ~wifi_connected

\* mod.rs:50-53: the stored-credential attempt and the branch on its result.
InitTryStored ==
    /\ pc = "try_stored"
    /\ \E res \in TryToWifiConnect(wifi_setup, settings.wifi_conn_timeout) :
         /\ now' = now + res.took
         /\ storedAttempt' = IF res.connected THEN "connected" ELSE "failed"
         /\ pc' = IF EntersProvisioning(res.connected) THEN "prov_config" ELSE "sta"
    /\ UNCHANGED <<settings, radioMode, configuration, wifi_setup, apStarted, dhcpUp,
                   endSignalled, sig, setup_info, start_time, last_scan, scanBuf,
                   resetAt, provConnected, subLog, seenAt, pending, consumed,
                   connAttempts>>
    /\ UNCHANGED storeVars
    /\ UNCHANGED portalVars
    /\ UNCHANGED taskVars
    /\ UNCHANGED connVars

\* mod.rs:63: let configuration = ModeConfig::Client(Default::default());
ProvisioningConfig == "Client"

\* mod.rs:56-65: the signals are created, the configuration is built and
\* applied to the controller.
InitProvConfig ==
    /\ pc = "prov_config"
    /\ configuration' = ProvisioningConfig
    /\ \E ok \in BOOLEAN :
         /\ pc' = IF ok THEN "spawn_ap" ELSE "ret_err"
         /\ radioMode' = IF ok THEN configuration' ELSE radioMode
    /\ UNCHANGED <<now, settings, wifi_setup, storedAttempt, apStarted, dhcpUp,
                   endSignalled, sig, setup_info, start_time, last_scan, scanBuf,
                   resetAt, provConnected, subLog, seenAt, pending, consumed,
                   connAttempts>>
    /\ UNCHANGED storeVars
    /\ UNCHANGED portalVars
    /\ UNCHANGED taskVars
    /\ UNCHANGED connVars

\* mod.rs:67-73: utils::spawn_ap starts the access point, its DHCP server and
\* the HTTP workers.
InitSpawnAp ==
    /\ pc = "spawn_ap"
    /\ \E ok \in BOOLEAN :
         /\ pc' = IF ok THEN "w_start" ELSE "ret_err"
         /\ apStarted' = ok
         /\ dhcpUp' = ok
         /\ webTask' = IF ok THEN Spawned ELSE webTask
    /\ UNCHANGED <<now, settings, radioMode, configuration, wifi_setup, storedAttempt,
                   endSignalled, sig, setup_info, start_time, last_scan, scanBuf,
                   resetAt, provConnected, subLog, seenAt, pending, consumed,
                   connAttempts>>
    /\ UNCHANGED storeVars
    /\ UNCHANGED portalVars
    /\ UNCHANGED scan_res
    /\ UNCHANGED connVars

\* WmSettings.wifi_reconnect_time values the caller may pass.
ReconnectTimes == {100, 300}

\* mod.rs:100-126: the client stack is brought up, the connection task and
\* the network task are spawned; init_wm returns.
InitStaUp ==
    /\ pc = "sta"
    /\ \E ok \in BOOLEAN, t \in ReconnectTimes :
         /\ pc' = IF ok THEN "ret_ok" ELSE "ret_err"
         /\ cpc' = IF ok THEN "c_top" ELSE cpc
         /\ staState' = IF ok THEN "Connected" ELSE staState
         /\ radioOn' = IF ok THEN TRUE ELSE radioOn
         /\ wifi_reconnect_time' = IF ok THEN t ELSE wifi_reconnect_time
    /\ UNCHANGED <<now, settings, radioMode, configuration, wifi_setup, storedAttempt,
                   apStarted, dhcpUp, endSignalled, sig, setup_info, start_time,
                   last_scan, scanBuf, resetAt, provConnected, subLog, seenAt, pending,
                   consumed, connAttempts>>
    /\ UNCHANGED <<stop_signal, lastDownAt, stopLog>>
    /\ UNCHANGED storeVars
    /\ UNCHANGED portalVars
    /\ UNCHANGED taskVars

\* ================================================= wifi_connection_worker
\* mod.rs:136-137: start_time = Instant::now(), last_scan = Instant::MIN
\* (tick 0, the boot time).
WorkerStart ==
    /\ pc = "w_start"
    /\ start_time' = now
    /\ last_scan' = 0
    /\ pc' = "w_sig"
    /\ UNCHANGED <<now, settings, radioMode, configuration, wifi_setup, storedAttempt,
                   apStarted, dhcpUp, endSignalled, sig, setup_info, scanBuf, resetAt,
                   provConnected, subLog, seenAt, pending, consumed, connAttempts>>
    /\ UNCHANGED storeVars
    /\ UNCHANGED portalVars
    /\ UNCHANGED taskVars
    /\ UNCHANGED connVars

\* A submission that cannot become a client configuration: no network name.
MalformedRecord == [ssid |-> <<>>, psk |-> <<LetterA>>]

\* What the portal side submits.
SubmitRecords ==
    {[ssid |-> <<LetterA>>, psk |-> <<LetterA>>], [ssid |-> <<98, 98, 98>>, psk |-> <<>>],
     MalformedRecord}

\* AutoSetupSettings::to_client_conf(): Ok for a record with a network name.
ToClientConfOk(r) == r.ssid # <<>>

\* Signal::signal(value): the slot is overwritten.
Signal(slot, value) == Some(value)

\* A submission arrives while the supervisor is suspended in an await.
Submit ==
    /\ pc \in {"w_scanning", "w_lock_wait", "w_sleep", "w_reset_delay", "w_connecting",
              "w_end_delay"}
    /\ apStarted
    /\ Len(subLog) < MaxSubmits
    /\ \E r \in SubmitRecords :
         /\ sig' = Signal(sig, r)
         /\ subLog' = Append(subLog, r)
    /\ pending' = pending + 1
    /\ UNCHANGED <<pc, now, settings, radioMode, configuration, wifi_setup, storedAttempt,
                   apStarted, dhcpUp, endSignalled, setup_info, start_time, last_scan,
                   scanBuf, resetAt, provConnected, seenAt, consumed, connAttempts>>
    /\ UNCHANGED storeVars
    /\ UNCHANGED portalVars
    /\ UNCHANGED taskVars
    /\ UNCHANGED connVars

\* Signal::wait() on a signalled slot, with the mutation that the value stays.
SignalPeek(slot) == slot

\* Signal::wait() on a signalled slot: the value is taken, the slot is empty.
SignalTake(slot) == None

\* mod.rs:139-146: a signalled submission is taken from the slot; the
\* configuration must be ApSta, otherwise the worker returns Err(Other).
WorkerCheckSignal ==
    /\ pc = "w_sig"
    /\ IF sig.some
       THEN /\ setup_info' = sig
            /\ sig' = SignalTake(sig)
            /\ seenAt' = Len(subLog)
            /\ pending' = 0
            /\ consumed' = consumed + 1
            /\ pc' = IF configuration = "ApSta" THEN "w_conf" ELSE "ret_err"
       ELSE /\ pc' = "w_scan"
            /\ UNCHANGED <<setup_info, sig, seenAt, pending, consumed>>
    /\ UNCHANGED <<now, settings, radioMode, configuration, wifi_setup, storedAttempt,
                   apStarted, dhcpUp, endSignalled, start_time, last_scan, scanBuf,
                   resetAt, provConnected, subLog, connAttempts>>
    /\ UNCHANGED storeVars
    /\ UNCHANGED portalVars
    /\ UNCHANGED taskVars
    /\ UNCHANGED connVars

\* mod.rs:166: last_scan.elapsed().as_millis() >= settings.wifi_scan_interval
ScanDue(elapsed, interval) == elapsed >= interval

\* controller.scan_with_config_async: an error, or the access points found.
ScanOutcomes ==
    {[ok |-> FALSE, aps |-> <<>>],
     [ok |-> TRUE, aps |-> <<>>],
     [ok |-> TRUE, aps |-> <<[ssid |-> <<LetterA>>, signal_strength |-> -50],
                             [ssid |-> <<98, 98, 98>>, signal_strength |-> -7]>>]}

\* mod.rs:166: the scan runs when the interval has elapsed.
WorkerScanCheck ==
    /\ pc = "w_scan"
    /\ Goto(IF ScanDue(now - last_scan, settings.wifi_scan_interval)
            THEN "w_scanning" ELSE "w_reset")
    /\ UNCHANGED storeVars

\* mod.rs:168: wifi_scan_res.lock().await suspends the worker while another
\* task holds the mutex.
LockWaits(holder) == holder # "none"

\* Display of an integer: its decimal digits, with a minus sign when negative.
RECURSIVE Digits(_)
Digits(n) == IF n < 10 THEN <<48 + n>> ELSE Digits(n \div 10) \o <<48 + (n % 10)>>

FmtInt(i) == IF i < 0 THEN <<45>> \o Digits(0 - i) ELSE Digits(i)

\* mod.rs:172-175: format_args!("{}: {}\n", ap.ssid, ap.signal_strength)
Line(ap) == ap.ssid \o <<58, 32>> \o FmtInt(ap.signal_strength) \o <<10>>

\* mod.rs:171-176: for ap in aps { write the line of ap }
RECURSIVE Lines(_)
Lines(aps) == IF aps = <<>> THEN <<>> ELSE Line(Head(aps)) \o Lines(Tail(aps))

\* mod.rs:169 left out: the old text stays in the buffer.
NoClear(text) == text

\* mod.rs:169: wifis.clear()
Clear(text) == <<>>

\* mod.rs:169-177: wifis.clear(), then one line per access point of an Ok scan.
ScanText(old, out) ==
    LET cleared == Clear(old)
    IN IF out.ok THEN cleared \o Lines(out.aps) ELSE cleared

\* mod.rs:167-179: the scan ends, the mutex is taken, the buffer is cleared
\* and rewritten and last_scan is set; with the mutex held by another task the
\* worker is parked in lock().await instead.
WorkerScanDone ==
    /\ pc = "w_scanning"
    /\ \E out \in ScanOutcomes, d \in Durations(100) :
         /\ now + d <= MaxTime
         /\ now' = now + d
         /\ scan_res' = out
         /\ IF LockWaits(scanLock)
            THEN pc' = "w_lock_wait" /\ UNCHANGED <<scanBuf, last_scan>>
            ELSE /\ scanBuf' = ScanText(scanBuf, out)
                 /\ last_scan' = now'
                 /\ pc' = "w_reset"
    /\ UNCHANGED <<settings, radioMode, configuration, wifi_setup, storedAttempt,
                   apStarted, dhcpUp, endSignalled, sig, setup_info, start_time, resetAt,
                   provConnected, subLog, seenAt, pending, consumed, connAttempts>>
    /\ UNCHANGED storeVars
    /\ UNCHANGED portalVars
    /\ UNCHANGED webTask
    /\ UNCHANGED connVars

\* mod.rs:182-183 with the deadline forgotten.
ResetDueNoDeadline(reset_timeout, elapsed) == reset_timeout.some

\* mod.rs:182-183: if let Some(reset_timeout) = settings.esp_reset_timeout
\*                   { if start_time.elapsed().as_millis() >= reset_timeout
ResetDue(reset_timeout, elapsed) == reset_timeout.some /\ elapsed >= reset_timeout.val

\* mod.rs:182-184: the reset check.
WorkerResetCheck ==
    /\ pc = "w_reset"
    /\ IF ResetDue(settings.esp_reset_timeout, now - start_time)
       THEN pc' = "w_reset_delay" /\ resetAt' = now
       ELSE pc' = "w_sleep" /\ UNCHANGED resetAt
    /\ UNCHANGED <<now, settings, radioMode, configuration, wifi_setup, storedAttempt,
                   apStarted, dhcpUp, endSignalled, sig, setup_info, start_time,
                   last_scan, scanBuf, provConnected, subLog, seenAt, pending, consumed,
                   connAttempts>>
    /\ UNCHANGED storeVars
    /\ UNCHANGED portalVars
    /\ UNCHANGED taskVars
    /\ UNCHANGED connVars

\* The supervisor waits `ms` milliseconds and goes on at `to`.
Wait(ms, to) ==
    /\ \E d \in Durations(ms) : now + d <= MaxTime /\ now' = now + d
    /\ pc' = to
    /\ UNCHANGED <<settings, radioMode, configuration, wifi_setup, storedAttempt,
                   apStarted, dhcpUp, endSignalled, sig, setup_info, start_time,
                   last_scan, scanBuf, resetAt, provConnected, subLog, seenAt, pending,
                   consumed, connAttempts>>
    /\ UNCHANGED portalVars
    /\ UNCHANGED taskVars
    /\ UNCHANGED connVars

\* mod.rs:185-186: Timer::after_millis(1000), then software_reset().
WorkerResetDelay ==
    /\ pc = "w_reset_delay"
    /\ Wait(1000, "reset")
    /\ UNCHANGED storeVars

\* mod.rs:190: Timer::after_millis(100), then the next iteration.
WorkerSleep ==
    /\ pc = "w_sleep"
    /\ Wait(100, "w_sig")
    /\ UNCHANGED storeVars

\* mod.rs:148-150: the submission becomes the client part of the ApSta
\* configuration, which is applied; either step may fail and return the error.
WorkerSetConf ==
    /\ pc = "w_conf"
    /\ \E ok \in IF ToClientConfOk(setup_info.val) THEN BOOLEAN ELSE {FALSE} :
         /\ pc' = IF ok THEN "w_connecting" ELSE "ret_err"
         /\ radioMode' = IF ok THEN configuration ELSE radioMode
    /\ UNCHANGED <<now, settings, configuration, wifi_setup, storedAttempt, apStarted,
                   dhcpUp, endSignalled, sig, setup_info, start_time, last_scan, scanBuf,
                   resetAt, provConnected, subLog, seenAt, pending, consumed,
                   connAttempts>>
    /\ UNCHANGED storeVars
    /\ UNCHANGED portalVars
    /\ UNCHANGED taskVars
    /\ UNCHANGED connVars

\* mod.rs:155 with the save block run whatever the attempt gave.
AfterAttemptAlwaysSave(wifi_connected) == "w_save"

\* mod.rs:155-166 with a failed attempt ending the worker.
AfterAttemptAbort(wifi_connected) == IF wifi_connected THEN "w_save" ELSE "ret_err"

\* mod.rs:155-166: a connected attempt goes on to the save; a failed one
\* falls through to the scan check of the same iteration.
AfterAttempt(wifi_connected) == IF wifi_connected THEN "w_save" ELSE "w_scan"

\* mod.rs:152-164 with the slot reset when an attempt ends.
SlotResetAfterAttempt(slot) == None

\* mod.rs:152-164: the attempt and what follows it never touch
\* wifi_conn_info_sig; a value signalled meanwhile stays in the slot.
SlotAfterAttempt(slot) == slot

\* mod.rs:152-155: the connection attempt with the submitted credentials.
WorkerConnectDone ==
    /\ pc = "w_connecting"
    /\ \E res \in TryToWifiConnect(setup_info, settings.wifi_conn_timeout) :
         /\ now + res.took <= MaxTime
         /\ now' = now + res.took
         /\ provConnected' = res.connected
         /\ pc' = AfterAttempt(res.connected)
    /\ connAttempts' = connAttempts + 1
    /\ sig' = SlotAfterAttempt(sig)
    /\ UNCHANGED <<settings, radioMode, configuration, wifi_setup, storedAttempt,
                   apStarted, dhcpUp, endSignalled, setup_info, start_time,
                   last_scan, scanBuf, resetAt, subLog, seenAt, pending, consumed>>
    /\ UNCHANGED storeVars
    /\ UNCHANGED portalVars
    /\ UNCHANGED taskVars
    /\ UNCHANGED connVars

\* mod.rs:156 with the `?` dropped: the result of save() is not looked at.
SaveErrorIgnored(op) == FALSE

\* mod.rs:156: storage.save(&setup_info)? returns the error of a failed save.
SaveFailed(op) == op # "save_ok"

\* mod.rs:156-158: storage.save(&setup_info)?, then dhcp_close().
WorkerSave ==
    /\ pc = "w_save"
    /\ \E writeOk \in BOOLEAN : Save(setup_info.val, writeOk)
    /\ pc' = IF SaveFailed(lastOp') THEN "ret_err" ELSE "w_end_delay"
    /\ dhcpUp' = IF SaveFailed(lastOp') THEN dhcpUp ELSE FALSE
    /\ UNCHANGED <<now, settings, radioMode, configuration, wifi_setup, storedAttempt,
                   apStarted, endSignalled, sig, setup_info, start_time, last_scan,
                   scanBuf, resetAt, provConnected, subLog, seenAt, pending, consumed,
                   connAttempts>>
    /\ UNCHANGED portalVars
    /\ UNCHANGED taskVars
    /\ UNCHANGED connVars

\* mod.rs:160-162: Timer::after_millis(1000), signal_end(), return Ok.
WorkerEnd ==
    /\ pc = "w_end_delay"
    /\ \E d \in Durations(1000) : now + d <= MaxTime /\ now' = now + d
    /\ endSignalled' = TRUE
    /\ pc' = "after_prov"
    /\ UNCHANGED <<settings, radioMode, configuration, wifi_setup, storedAttempt,
                   apStarted, dhcpUp, sig, setup_info, start_time, last_scan, scanBuf,
                   resetAt, provConnected, subLog, seenAt, pending, consumed,
                   connAttempts>>
    /\ UNCHANGED storeVars
    /\ UNCHANGED portalVars
    /\ UNCHANGED taskVars
    /\ UNCHANGED connVars

\* mod.rs:93 with the flag never honoured.
RestartNever(flag) == FALSE

\* mod.rs:93: if settings.esp_restart_after_connection
RestartAfter(flag) == flag

\* mod.rs:83-93: the worker's record is applied as the client configuration;
\* the restart flag decides what follows.
InitAfterProvisioning ==
    /\ pc = "after_prov"
    /\ wifi_setup' = setup_info
    /\ \E ok \in BOOLEAN :
         /\ pc' = IF ~ok THEN "ret_err"
                  ELSE IF RestartAfter(settings.esp_restart_after_connection)
                       THEN "restart_delay"
                  ELSE "sta"
         /\ radioMode' = IF ok THEN "Client" ELSE radioMode
    /\ UNCHANGED <<now, settings, configuration, storedAttempt, apStarted, dhcpUp,
                   endSignalled, sig, setup_info, start_time, last_scan, scanBuf,
                   resetAt, provConnected, subLog, seenAt, pending, consumed,
                   connAttempts>>
    /\ UNCHANGED storeVars
    /\ UNCHANGED portalVars
    /\ UNCHANGED taskVars
    /\ UNCHANGED connVars

\* mod.rs:94-96: Timer::after_millis(1000), then software_reset().
InitRestart ==
    /\ pc = "restart_delay"
    /\ Wait(1000, "restart")
    /\ UNCHANGED storeVars

\* mod.rs:168-179: the mutex was released, lock().await returns and the
\* result of the scan is written.
WorkerLockAcquired ==
    /\ pc = "w_lock_wait"
    /\ ~LockWaits(scanLock)
    /\ scanBuf' = ScanText(scanBuf, scan_res)
    /\ last_scan' = now
    /\ pc' = "w_reset"
    /\ UNCHANGED <<now, settings, radioMode, configuration, wifi_setup, storedAttempt,
                   apStarted, dhcpUp, endSignalled, sig, setup_info, start_time, resetAt,
                   provConnected, subLog, seenAt, pending, consumed, connAttempts>>
    /\ UNCHANGED portalVars
    /\ UNCHANGED storeVars
    /\ UNCHANGED taskVars
    /\ UNCHANGED connVars

\* ======================================================= the captive portal
\* The supervisor is suspended in an await: the other tasks of the executor
\* can run.
AwaitPcs ==
    {"w_scanning", "w_lock_wait", "w_sleep", "w_reset_delay", "w_connecting",
     "w_end_delay"}

\* http.rs:23-27: the router has one route, GET / with the panel page; the
\* routes /list and /setup of http.rs:28-48 are commented out.
Routes == {[method |-> "GET", path |-> "/"]}

\* What a client of the portal may send.
Requests ==
    {[method |-> "GET", path |-> "/", body |-> NoRecord],
     [method |-> "GET", path |-> "/list", body |-> NoRecord]}
    \cup {[method |-> "POST", path |-> "/setup", body |-> r] : r \in SubmitRecords}

\* picoserve's router: the handler of the matching route answers, and a
\* request without a route is answered 404 Not Found.
Respond(req) ==
    IF [method |-> req.method, path |-> req.path] \in Routes
    THEN [status |-> 200, body |-> <<"panel.html">>]
    ELSE [status |-> 404, body |-> <<>>]

\* http.rs:52-69: a web task serves one request; no handler of the router
\* touches the submission slot or the scan buffer.
WebTaskServe ==
    /\ pc \in AwaitPcs
    /\ apStarted
    /\ ~endSignalled
    /\ \E id \in WebIds : webTask[id] = "idle"
    /\ \E req \in Requests :
         /\ lastReq' = req
         /\ lastResp' = Respond(req)
    /\ UNCHANGED <<pc, now, settings, radioMode, configuration, wifi_setup,
                   storedAttempt, apStarted, dhcpUp, endSignalled, sig, setup_info,
                   start_time, last_scan, scanBuf, resetAt, provConnected, subLog,
                   seenAt, pending, consumed, connAttempts, scanLock>>
    /\ UNCHANGED storeVars
    /\ UNCHANGED taskVars
    /\ UNCHANGED connVars

\* A reader of the scan buffer takes the mutex with try_lock() ...
ReaderTryLock ==
    /\ pc \in AwaitPcs
    /\ apStarted
    /\ scanLock = "none"
    /\ scanLock' = "reader"
    /\ UNCHANGED <<pc, now, settings, radioMode, configuration, wifi_setup,
                   storedAttempt, apStarted, dhcpUp, endSignalled, sig, setup_info,
                   start_time, last_scan, scanBuf, resetAt, provConnected, subLog,
                   seenAt, pending, consumed, connAttempts, lastReq, lastResp>>
    /\ UNCHANGED storeVars
    /\ UNCHANGED taskVars
    /\ UNCHANGED connVars

\* ... and drops the guard when it has copied the text.
ReaderUnlock ==
    /\ pc \in AwaitPcs
    /\ scanLock = "reader"
    /\ scanLock' = "none"
    /\ UNCHANGED <<pc, now, settings, radioMode, configuration, wifi_setup,
                   storedAttempt, apStarted, dhcpUp, endSignalled, sig, setup_info,
                   start_time, last_scan, scanBuf, resetAt, provConnected, subLog,
                   seenAt, pending, consumed, connAttempts, lastReq, lastResp>>
    /\ UNCHANGED storeVars
    /\ UNCHANGED taskVars
    /\ UNCHANGED connVars

\* The supervisor is suspended or has returned: the web tasks can run.
TasksCanRun == pc \in AwaitPcs \cup {"restart_delay", "ret_ok", "ret_err"}

\* WmInnerSignals::end_signalled() resolving in the first web task only, as
\* a single-slot signal that its first waiter takes would.
EndSeenByFirstOnly(id, tasks) ==
    endSignalled /\ \A j \in WebIds : tasks[j] # "exited"

\* WmInnerSignals::end_signalled(): the broadcast of signal_end() resolves
\* the wait of every task.
EndSeen(id, tasks) == endSignalled

\* http.rs:66-68: listen_and_serve accepts a connection unless the shutdown
\* future has resolved.
WebTaskAccept(id) ==
    /\ TasksCanRun
    /\ webTask[id] = "idle"
    /\ ~EndSeen(id, webTask)
    /\ webTask' = [webTask EXCEPT ![id] = "serving"]
    /\ UNCHANGED <<supVars, portalVars, scan_res>>
    /\ UNCHANGED storeVars
    /\ UNCHANGED connVars

\* http.rs:77-84: the request in progress ends, by its response or by one of
\* the one-second timeouts of the configuration.
WebTaskFinish(id) ==
    /\ TasksCanRun
    /\ webTask[id] = "serving"
    /\ webTask' = [webTask EXCEPT ![id] = "idle"]
    /\ UNCHANGED <<supVars, portalVars, scan_res>>
    /\ UNCHANGED storeVars
    /\ UNCHANGED connVars

\* http.rs:67: with_graceful_shutdown(signals.end_signalled(), None): the
\* server stops and web_task returns.
WebTaskExit(id) ==
    /\ TasksCanRun
    /\ webTask[id] = "idle"
    /\ EndSeen(id, webTask)
    /\ webTask' = [webTask EXCEPT ![id] = "exited"]
    /\ UNCHANGED <<supVars, portalVars, scan_res>>
    /\ UNCHANGED storeVars
    /\ UNCHANGED connVars

WebTaskAccepts == \E id \in WebIds : WebTaskAccept(id)
WebTaskFinishes == \E id \in WebIds : WebTaskFinish(id)
WebTaskExits == \E id \in WebIds : WebTaskExit(id)

WmNext ==
    \/ InitRadio
    \/ InitLoad
    \/ InitRadioStart
    \/ InitTryStored
    \/ InitProvConfig
    \/ InitSpawnAp
    \/ InitStaUp
    \/ WorkerStart
    \/ Submit
    \/ WorkerCheckSignal
    \/ WorkerScanCheck
    \/ WorkerScanDone
    \/ WorkerResetCheck
    \/ WorkerResetDelay
    \/ WorkerSleep

\* The executor runs the supervisor whenever it can go on; submissions are up
\* to the human in front of the portal.
SupervisorStep ==
    \/ InitRadio
    \/ InitLoad
    \/ InitRadioStart
    \/ InitTryStored
    \/ InitProvConfig
    \/ InitSpawnAp
    \/ InitStaUp
    \/ WorkerStart
    \/ WorkerCheckSignal
    \/ WorkerScanCheck
    \/ WorkerScanDone
    \/ WorkerResetCheck
    \/ WorkerResetDelay
    \/ WorkerSleep

\* The settings the worker is exercised with: one scan interval, no reset
\* deadline or a late one, either restart flag.
WorkerSettings ==
    {s \in SettingsSet : s.wifi_scan_interval = 200 /\ s.esp_reset_timeout.val # 300}

\* wifi_connection_worker on its own, called with either ModeConfig: the
\* steps behind the `let ... else` of mod.rs:143 run only for ApSta, which
\* init_wm never passes.
WorkerInit ==
    /\ region \in {Zeros, ToSlice([ssid |-> <<LetterA>>, psk |-> <<LetterA>>], Zeros)}
    /\ buf = Zeros
    /\ loaded = None
    /\ endPos = 0
    /\ lastOp = "new"
    /\ hist = "new"
    /\ saved = None
    /\ pc = "w_start"
    /\ now \in {0, 200}
    /\ settings \in WorkerSettings
    /\ configuration \in {"Client", "ApSta"}
    /\ radioMode = configuration
    /\ wifi_setup = None
    /\ storedAttempt = "failed"
    /\ apStarted = TRUE
    /\ dhcpUp = TRUE
    /\ endSignalled = FALSE
    /\ sig = None
    /\ setup_info = None
    /\ start_time = 0
    /\ last_scan = 0
    /\ scanBuf = <<>>
    /\ resetAt = -1
    /\ provConnected = FALSE
    /\ subLog = <<>>
    /\ seenAt = 0
    /\ pending = 0
    /\ consumed = 0
    /\ connAttempts = 0
    /\ PortalIdle
    /\ TasksIdle
    /\ webTask = Spawned
    /\ ConnIdle

WorkerNext ==
    \/ WorkerStart
    \/ Submit
    \/ WorkerCheckSignal
    \/ WorkerSetConf
    \/ WorkerConnectDone
    \/ WorkerSave
    \/ WorkerEnd
    \/ InitAfterProvisioning
    \/ InitRestart
    \/ InitStaUp
    \/ WorkerScanCheck
    \/ WorkerScanDone
    \/ WorkerResetCheck
    \/ WorkerResetDelay
    \/ WorkerSleep

WorkerSpec == WorkerInit /\ [][WorkerNext]_vars

\* init_wm with the tasks of the portal running beside it: the web tasks
\* serve requests and a reader of the scan buffer takes and drops its mutex.
\* One setting is enough here.
PortalSettings ==
    {s \in SettingsSet : /\ s.wifi_scan_interval = 200
                         /\ s.esp_reset_timeout = [some |-> TRUE, val |-> 500]
                         /\ ~s.esp_restart_after_connection}

PortalInit == WmInit /\ settings \in PortalSettings

PortalNext ==
    \/ WmNext
    \/ WorkerLockAcquired
    \/ WebTaskServe
    \/ ReaderTryLock
    \/ ReaderUnlock

PortalSpec == PortalInit /\ [][PortalNext]_vars

\* The worker called with ModeConfig::ApSta and the web tasks of the pool
\* beside it, up to the end of provisioning and what init_wm does after it.
EndInit ==
    /\ WorkerInit
    /\ configuration = "ApSta"
    /\ region = Zeros
    /\ now = 200
    /\ settings.esp_reset_timeout.some

\* The steps of the supervisor.
WorkerStep ==
    \/ WorkerStart
    \/ WorkerCheckSignal
    \/ WorkerSetConf
    \/ WorkerConnectDone
    \/ WorkerSave
    \/ WorkerEnd
    \/ InitAfterProvisioning
    \/ InitRestart
    \/ InitStaUp
    \/ WorkerScanCheck
    \/ WorkerScanDone
    \/ WorkerResetCheck
    \/ WorkerResetDelay
    \/ WorkerSleep

EndNext ==
    \/ WorkerStep
    \/ Submit
    \/ WebTaskAccepts
    \/ WebTaskFinishes
    \/ WebTaskExits

\* The executor runs every task that can go on: the supervisor, and each web
\* task, whose request in progress ends within the timeouts of http.rs:79-84.
EndFairness ==
    /\ WF_vars(WorkerStep)
    /\ \A id \in WebIds : WF_vars(WebTaskFinish(id)) /\ WF_vars(WebTaskExit(id))

EndSpec == EndInit /\ [][EndNext]_vars /\ EndFairness

\* ====================================================== connection task
\* A value signalled on stop_signal.
StopVal(val) == [some |-> TRUE, val |-> val]

\* What the supervisor holds besides the clock.
supRest == <<pc, settings, radioMode, configuration, wifi_setup, storedAttempt,
             apStarted, dhcpUp, endSignalled, sig, setup_info, start_time, last_scan,
             scanBuf, resetAt, provConnected, subLog, seenAt, pending, consumed,
             connAttempts>>

\* The connection task goes on without letting time pass.
ConnGoto(to) ==
    /\ cpc' = to
    /\ UNCHANGED <<supVars, storeVars, portalVars, taskVars>>

\* Timer::after(Duration::from_millis(ms)).await in the connection task.
ConnWait(ms, to) ==
    /\ \E d \in Durations(ms) : now + d <= MaxTime /\ now' = now + d
    /\ cpc' = to
    /\ UNCHANGED <<supRest, storeVars, portalVars, taskVars>>

\* A failed connect is followed by no delay.
NoFailBackoff(t) == 0

\* mod.rs:245: the delay after a failed connect.
FailBackoff(t) == t

\* Any value received while stopped restarts the radio.
RestartsOnAny(val) == TRUE

\* mod.rs:221-226: the inner loop is left on a false value only.
Restarts(val) == ~val

\* The select takes a value from stop_signal before the disconnect event.
StopPolledFirst(st, slot) == st # "Connected" /\ ~slot.some

\* mod.rs:206-209: the select polls wait_for_event(StaDisconnected) first, so
\* the event wins whenever the station is down.
EventPolledFirst(st, slot) == st # "Connected"

\* mod.rs:203-204: the top of the loop reads the station state.
ConnTop ==
    /\ cpc = "c_top"
    /\ ConnGoto(IF staState = "Connected" THEN "c_wait" ELSE "c_connecting")
    /\ UNCHANGED <<staState, stop_signal, radioOn, wifi_reconnect_time, lastDownAt, stopLog>>

\* mod.rs:206-231: select(wait_for_event(StaDisconnected), stop_signal.wait())
\* completes. The disconnect event is polled first; a value taken from
\* stop_signal empties the slot.
ConnWaitDone ==
    /\ cpc = "c_wait"
    /\ IF EventPolledFirst(staState, stop_signal)
       THEN /\ ConnGoto("c_backoff")
            /\ lastDownAt' = now
            /\ UNCHANGED stop_signal
       ELSE /\ stop_signal.some
            /\ stop_signal' = NoStop
            /\ ConnGoto(IF stop_signal.val THEN "c_disconnecting" ELSE "c_top")
            /\ UNCHANGED lastDownAt
    /\ UNCHANGED <<staState, radioOn, wifi_reconnect_time, stopLog>>

\* mod.rs:216: _ = controller.disconnect_async().await
ConnDisconnect ==
    /\ cpc = "c_disconnecting"
    /\ \E ok \in BOOLEAN : staState' = IF ok THEN "Disconnected" ELSE staState
    /\ ConnGoto("c_stopping")
    /\ UNCHANGED <<stop_signal, radioOn, wifi_reconnect_time, lastDownAt, stopLog>>

\* mod.rs:217: _ = controller.stop_async().await
ConnStop ==
    /\ cpc = "c_stopping"
    /\ \E ok \in BOOLEAN :
         /\ radioOn' = IF ok THEN FALSE ELSE radioOn
         /\ staState' = IF ok THEN "Stopped" ELSE staState
    /\ ConnGoto("c_stopped")
    /\ UNCHANGED <<stop_signal, wifi_reconnect_time, lastDownAt, stopLog>>

\* mod.rs:221-226: a value is received while stopped.
ConnStoppedWait ==
    /\ cpc = "c_stopped"
    /\ stop_signal.some
    /\ stop_signal' = NoStop
    /\ ConnGoto(IF Restarts(stop_signal.val) THEN "c_starting" ELSE "c_stopped")
    /\ UNCHANGED <<staState, radioOn, wifi_reconnect_time, lastDownAt, stopLog>>

\* mod.rs:228: _ = controller.start_async().await
ConnStart ==
    /\ cpc = "c_starting"
    /\ \E ok \in BOOLEAN :
         /\ radioOn' = IF ok THEN TRUE ELSE radioOn
         /\ staState' = IF ok /\ ~radioOn THEN "Started" ELSE staState
    /\ ConnGoto("c_backoff")
    /\ UNCHANGED <<stop_signal, wifi_reconnect_time, lastDownAt, stopLog>>

\* mod.rs:236: the delay after a disconnect event or a restart of the radio.
ConnBackoff ==
    /\ cpc = "c_backoff"
    /\ ConnWait(wifi_reconnect_time, "c_connecting")
    /\ UNCHANGED <<staState, stop_signal, radioOn, wifi_reconnect_time, lastDownAt, stopLog>>

\* mod.rs:239-247: controller.connect_async().await completes.
ConnConnectDone ==
    /\ cpc = "c_connecting"
    /\ \E ok \in BOOLEAN :
         /\ ok => radioOn
         /\ staState' = IF ok THEN "Connected"
                        ELSE IF radioOn THEN "Disconnected" ELSE staState
         /\ lastDownAt' = IF ok THEN lastDownAt ELSE now
         /\ ConnGoto(IF ok THEN "c_top" ELSE "c_fail_backoff")
    /\ UNCHANGED <<stop_signal, radioOn, wifi_reconnect_time, stopLog>>

\* mod.rs:245: the delay after a failed connect.
ConnFailBackoff ==
    /\ cpc = "c_fail_backoff"
    /\ ConnWait(FailBackoff(wifi_reconnect_time), "c_top")
    /\ UNCHANGED <<staState, stop_signal, radioOn, wifi_reconnect_time, lastDownAt, stopLog>>

\* The access point drops the station.
StaDisconnected ==
    /\ cpc # "unspawned"
    /\ staState = "Connected"
    /\ staState' = "Disconnected"
    /\ UNCHANGED <<cpc, stop_signal, radioOn, wifi_reconnect_time, lastDownAt, stopLog>>
    /\ UNCHANGED <<supVars, storeVars, portalVars, taskVars>>

\* mod.rs:125: the caller of init_wm signals a value on WmReturn.stop_signal;
\* the slot keeps the latest value.
StopSignal ==
    /\ pc = "ret_ok"
    /\ Len(stopLog) < MaxStops
    /\ \E val \in BOOLEAN :
         /\ stop_signal' = StopVal(val)
         /\ stopLog' = Append(stopLog, val)
    /\ UNCHANGED <<cpc, staState, radioOn, wifi_reconnect_time, lastDownAt>>
    /\ UNCHANGED <<supVars, storeVars, portalVars, taskVars>>

\* The steps of the connection task.
ConnStep ==
    \/ ConnTop
    \/ ConnWaitDone
    \/ ConnDisconnect
    \/ ConnStop
    \/ ConnStoppedWait
    \/ ConnStart
    \/ ConnBackoff
    \/ ConnConnectDone
    \/ ConnFailBackoff

\* mod.rs:113-126: init_wm has returned Ok after the stored credentials
\* connected, with the connection task spawned.
ConnInit ==
    /\ region = ToSlice([ssid |-> <<LetterA>>, psk |-> <<LetterA>>], Zeros)
    /\ buf = region
    /\ loaded = Some([ssid |-> <<LetterA>>, psk |-> <<LetterA>>])
    /\ endPos = EndPos(region)
    /\ lastOp = "load"
    /\ hist = "other"
    /\ saved = None
    /\ pc = "ret_ok"
    /\ now = 100
    /\ settings = [wifi_conn_timeout |-> 200, wifi_scan_interval |-> 200,
                   esp_reset_timeout |-> [some |-> FALSE, val |-> 0],
                   esp_restart_after_connection |-> TRUE]
    /\ radioMode = "Client"
    /\ configuration = "None"
    /\ wifi_setup = loaded
    /\ storedAttempt = "connected"
    /\ apStarted = FALSE
    /\ dhcpUp = FALSE
    /\ endSignalled = FALSE
    /\ sig = None
    /\ setup_info = None
    /\ start_time = 0
    /\ last_scan = 0
    /\ scanBuf = <<>>
    /\ resetAt = -1
    /\ provConnected = FALSE
    /\ subLog = <<>>
    /\ seenAt = 0
    /\ pending = 0
    /\ consumed = 0
    /\ connAttempts = 0
    /\ PortalIdle
    /\ TasksIdle
    /\ webTask = Unspawned
    /\ cpc = "c_top"
    /\ staState = "Connected"
    /\ stop_signal = NoStop
    /\ radioOn = TRUE
    /\ wifi_reconnect_time \in ReconnectTimes
    /\ lastDownAt = -1
    /\ stopLog = <<>>

ConnNext ==
    \/ ConnStep
    \/ StaDisconnected
    \/ StopSignal

\* The executor runs the connection task whenever it can go on.
ConnFairness == WF_vars(ConnStep)

ConnSpec == ConnInit /\ [][ConnNext]_vars /\ ConnFairness

Spec == WmInit /\ [][WmNext]_vars
FairSpec == Spec /\ WF_vars(SupervisorStep)

\* ======================================================= credential store
\* C1: save(S) on a new store followed by load() returns Some(S).
C1_RoundTrip == hist = "SL" => loaded = saved

\* C2: after successful saves, load() returns exactly the last saved record.
C2_LastSaveWins == (lastOp = "load" /\ saved.some) => loaded = saved

\* C3: load() on an all-zero region finds the sentinel at position 0 and
\* returns None.
C3_EmptyRegionNone ==
    (lastOp = "load" /\ region = Zeros) => (endPos = 0 /\ loaded = None)

C3_Witness == lastOp = "load" /\ region = Zeros /\ buf = Zeros /\ endPos = 0

\* C4: load() on a garbage region without any zero byte bounds the payload at
\* the end of the window and returns None.
C4_GarbageNoSentinelNone ==
    (lastOp = "load" /\ region \in GarbageRegions) => (endPos = BufLen /\ loaded = None)

C4_Witness ==
    /\ lastOp = "load"
    /\ region \in GarbageRegions
    /\ region # Erased
    /\ region[1] = 123
    /\ region[BufLen] = ErasedByte

\* C5: a load() whose flash read fails returns None.
C5_ReadErrorNone == lastOp = "load_readfail" => loaded = None

\* ============================================================= supervisor
WorkerPcs ==
    {"w_start", "w_sig", "w_conf", "w_connecting", "w_save", "w_end_delay", "w_scan",
     "w_scanning", "w_lock_wait", "w_reset", "w_reset_delay", "w_sleep"}

\* C6: the submission slot is single and the latest submission wins: the slot
\* holds a value only while a submission is unconsumed, that value is the
\* latest submission, what the worker took is the latest submission made
\* before it took one, and no taken submission is tried more than once.
C6_LatestWins ==
    /\ (sig.some <=> pending > 0)
    /\ (sig.some => sig.val = subLog[Len(subLog)])
    /\ (consumed > 0 => setup_info = Some(subLog[seenAt]))
    /\ connAttempts <= consumed

C6_Witness ==
    /\ consumed = 1
    /\ seenAt = 2
    /\ subLog[1] # subLog[2]
    /\ setup_info = Some(subLog[2])

\* C7: the access point is started only after the stored-credential attempt
\* has failed, it is up before the provisioning loop runs, and a failed
\* attempt never leads to the client path.
C7_ApAfterFailedAttempt ==
    /\ (apStarted => storedAttempt = "failed")
    /\ (pc \in WorkerPcs => apStarted /\ storedAttempt = "failed")
    /\ (storedAttempt = "failed" => pc \notin {"sta", "ret_ok"})

C7_Witness ==
    /\ pc = "w_sig"
    /\ apStarted
    /\ wifi_setup.some
    /\ storedAttempt = "failed"
    /\ now >= settings.wifi_conn_timeout

\* C8: once the access point is started, the mode applied to the controller
\* and handed to the provisioning loop includes an access point.
C8_ApModeOnProvisioning ==
    apStarted => (radioMode \in {"ApSta", "AccessPoint"}
                  /\ configuration \in {"ApSta", "AccessPoint"})

\* C9: the worker's restart is decided only with esp_reset_timeout = Some(T)
\* and at least T ms after the worker started, never after a submission has
\* connected, and the restart itself comes at least 1000 ms later.
C9_ResetOnlyAfterDeadline ==
    pc \in {"w_reset_delay", "reset"} =>
        /\ settings.esp_reset_timeout.some
        /\ resetAt - start_time >= settings.esp_reset_timeout.val
        /\ ~provConnected
        /\ (pc = "reset" => now >= resetAt + 1000)

C9_Witness ==
    /\ pc = "reset"
    /\ settings.esp_reset_timeout = [some |-> TRUE, val |-> 500]
    /\ now - start_time >= 1500

\* C10: with esp_reset_timeout configured, the provisioning loop ends in a
\* restart unless a submission connects.
C10_EventuallyRestart ==
    (pc = "w_start" /\ settings.esp_reset_timeout.some) ~> (pc = "reset" \/ provConnected)


\* ===================================================== provisioning result
\* The supervisor is past a worker that returned Ok(record).
ReturnedOkPcs == {"after_prov", "restart_delay", "restart", "sta", "ret_ok"}

\* C11: the worker returns Ok(record) only after, in this order, the store
\* was written with exactly that record, the DHCP service was torn down and
\* the end broadcast was signalled: the end broadcast is never signalled with
\* DHCP still up, and DHCP is never down without the flash region holding the
\* serialised record the worker took.
C11_OkAfterSaveDhcpEnd ==
    /\ (provConnected /\ pc \in ReturnedOkPcs) => endSignalled
    /\ endSignalled => ~dhcpUp
    /\ (apStarted /\ ~dhcpUp) =>
          /\ provConnected
          /\ lastOp = "save_ok"
          /\ saved = setup_info
          /\ region = ToSlice(setup_info.val, Zeros)

C11_Witness ==
    /\ pc = "after_prov"
    /\ provConnected
    /\ endSignalled
    /\ ~dhcpUp
    /\ region = ToSlice(setup_info.val, Zeros)

\* C12: a submitted credential that fails to connect is discarded: the step
\* that ends a failed attempt leaves the worker in its loop (at the scan
\* check), the flash region and the record saved as they were, DHCP up and
\* the end broadcast unsignalled; and while no attempt has connected nothing
\* is saved and the end is not signalled.
C12_FailedAttemptDiscarded ==
    /\ [][(connAttempts' # connAttempts /\ ~provConnected') =>
            /\ pc' = "w_scan"
            /\ UNCHANGED <<region, saved, lastOp, dhcpUp, endSignalled, sig>>]_vars
    /\ []((connAttempts > 0 /\ ~provConnected) =>
            /\ saved = None
            /\ ~endSignalled
            /\ dhcpUp
            /\ pc \notin ReturnedOkPcs)

\* A first attempt has failed and a later submission is being tried.
C12_Witness ==
    /\ connAttempts = 1
    /\ ~provConnected
    /\ consumed = 2
    /\ pc = "w_connecting"
    /\ saved = None
    /\ ~endSignalled

\* C13: a malformed submission is ignored: after the worker took one it is
\* still in its loop and init_wm has not returned an error.
C13_MalformedIgnored ==
    (setup_info.some /\ ~ToClientConfOk(setup_info.val)) => pc # "ret_err"

C15_StoredConnectLeaves ==
    storedAttempt = "connected" =>
        /\ pc \in {"sta", "ret_ok", "ret_err"}
        /\ wifi_setup.some
        /\ lastOp \in {"load", "load_readfail"}
        /\ saved = None
        /\ ~apStarted
        /\ ~dhcpUp
        /\ ~sig.some
        /\ subLog = <<>>
        /\ configuration = "None"
        /\ resetAt = -1

C15_Witness ==
    /\ storedAttempt = "connected"
    /\ pc = "ret_ok"
    /\ settings.esp_restart_after_connection
    /\ ~apStarted

\* C16: a store that yields no record is not an error: the step after
\* load() is always the radio start, and without a record the stored attempt
\* fails, so init_wm never takes the client-stack path and the worker never
\* starts without the attempt having failed.
C16_NoRecordProvisions ==
    /\ [][pc = "load" => pc' = "radio_start"]_vars
    /\ []((~wifi_setup.some /\ storedAttempt # "none") =>
            (storedAttempt = "failed" /\ pc \notin {"sta", "ret_ok"}))

C16_Witness ==
    /\ lastOp = "load"
    /\ region = Erased
    /\ ~wifi_setup.some
    /\ storedAttempt = "failed"
    /\ pc = "w_sig"
    /\ apStarted

\* C17: after a provisioning that succeeded, init_wm restarts the device
\* exactly when esp_restart_after_connection is set, and only with the record
\* saved: with the flag it never reaches the client stack, without it it
\* never reaches the restart.
C17_RestartFollowsFlag ==
    /\ pc \in {"restart_delay", "restart"} =>
          /\ settings.esp_restart_after_connection
          /\ provConnected
          /\ lastOp = "save_ok"
          /\ saved = setup_info
    /\ (provConnected /\ pc \in {"sta", "ret_ok"}) =>
          /\ ~settings.esp_restart_after_connection
          /\ saved = setup_info

C17_Witness == pc = "restart" /\ provConnected /\ saved = setup_info

\* ======================================================= the captive portal
\* C18: the portal serves the setup route: every POST /setup is answered by
\* its handler and its body is a submission on the signal bus.
C18_SetupForwarded ==
    (lastReq.method = "POST" /\ lastReq.path = "/setup") =>
        /\ lastResp.status = 200
        /\ \E i \in 1..Len(subLog) : subLog[i] = lastReq.body

\* C19: a GET /list is answered at once from the scan buffer: with nothing,
\* or with the complete text of one finished scan.
C19_ListRead ==
    (lastReq.method = "GET" /\ lastReq.path = "/list") =>
        /\ lastResp.status = 200
        /\ lastResp.body \in {<<>>} \cup {ScanText(<<>>, out) : out \in ScanOutcomes}

\* C20: the worker is never parked on the mutex of the scan buffer: when a
\* reader holds it at the end of a scan the write is skipped and the loop
\* goes on.
C20_ScanNeverWaitsForLock == pc # "w_lock_wait"

\* =========================================================== radio bring-up
\* C22: a radio bring-up failure is fatal: init_wm is past its first calls
\* only with the controller created, it attempts a connection or provisions
\* only with a configuration applied and the radio started, and a bring-up
\* step that fails returns the error with no attempt made.
C22_BringUpFailureFatal ==
    /\ [](pc \notin {"init", "ret_err"} => radioMode # "None")
    /\ []((storedAttempt # "none" \/ apStarted
            \/ pc \in WorkerPcs \cup {"try_stored", "prov_config", "spawn_ap"})
           => radioMode \in {"Client", "ApSta"})
    /\ [][(pc \in {"init", "radio_start"} /\ radioMode' = radioMode) =>
            (pc' = "ret_err" /\ storedAttempt' = "none" /\ ~apStarted')]_vars

\* set_config or start_async has failed after the controller was created.
C22_Witness ==
    /\ pc = "ret_err"
    /\ radioMode = "Created"
    /\ lastOp \in {"load", "load_readfail"}
    /\ storedAttempt = "none"
    /\ ~apStarted

\* ============================================================ the scanner
\* C23: the first scan runs in the first iteration of the loop, so the
\* iteration is never past its scan check without a scan completed, and a
\* scan starts only with wifi_scan_interval elapsed since the last one
\* completed.
C23_ScanScheduling ==
    /\ pc \in {"w_reset", "w_sleep", "w_reset_delay", "reset"} => last_scan > 0
    /\ pc = "w_scanning" => now - last_scan >= settings.wifi_scan_interval

\* C24: each scan overwrites the scan buffer: once the result of a scan is
\* written the buffer is exactly the lines `ssid: signal_strength` of the
\* access points of that scan, in their order, one line feed per access
\* point, and it is empty when the scan failed.
C24_ScanOverwrites ==
    pc # "w_lock_wait" =>
        /\ scanBuf = (IF scan_res.ok THEN Lines(scan_res.aps) ELSE <<>>)
        /\ Cardinality({i \in 1..Len(scanBuf) : scanBuf[i] = 10})
             = (IF scan_res.ok THEN Len(scan_res.aps) ELSE 0)

\* A later scan has returned two access points.
C24_Witness ==
    /\ pc = "w_reset"
    /\ last_scan > 700
    /\ scan_res.ok
    /\ Len(scan_res.aps) = 2
    /\ scanBuf = Line(scan_res.aps[1]) \o Line(scan_res.aps[2])

\* ====================================================== writes of the store
\* C25: the flash region is written only by the worker's save, only after a
\* connection attempt with submitted credentials has succeeded, and at most
\* once in a run: every step that changes the region or the saved record is
\* the save step of a worker whose attempt connected and that has not saved
\* before.
C25_RegionWrittenOnce ==
    [][(region' # region \/ saved' # saved) =>
          /\ pc = "w_save"
          /\ provConnected
          /\ connAttempts > 0
          /\ ~saved.some
          /\ lastOp # "save_ok"
          /\ saved' = setup_info]_vars

\* The region was written after an attempt that failed and one that connected.
C25_Witness ==
    /\ saved.some
    /\ lastOp = "save_ok"
    /\ region = ToSlice(saved.val, Zeros)
    /\ provConnected
    /\ connAttempts = 2

\* ====================================================== the worker's loop
\* The time at which the scan interval has elapsed, and the time at which
\* the reset deadline has passed, both counted from the start of the worker.
ScanReadyAt ==
    IF last_scan + settings.wifi_scan_interval > start_time
    THEN last_scan + settings.wifi_scan_interval
    ELSE start_time
ResetReadyAt == start_time + settings.esp_reset_timeout.val

\* C26: the loop is a race between its wake sources and the one that became
\* ready first is handled first: a scan is never being run while the reset
\* deadline, which passed before the scan interval elapsed, is still
\* unhandled.
C26_FirstReadyFirstHandled ==
    pc = "w_scanning" => ~(settings.esp_reset_timeout.some /\ ResetReadyAt < ScanReadyAt)

\* ================================================== save of a long record
\* C27: a save that fails because the record does not fit the buffer writes
\* nothing to flash: the step leaves the region and the saved record as they
\* were, and the load that follows it (with a flash read that succeeds)
\* returns what the region holds, which is what it held before that save.
C27_LongSaveLeavesRegion ==
    /\ [][hist' = "F" => (region' = region /\ saved' = saved /\ lastOp' = "save_err")]_vars
    /\ [](hist = "FL" => loaded = FromSlice(SubSeq(region, 1, EndPos(region))))

\* A record was saved, a too long one was refused, and load returns the first.
C27_Witness == hist = "FL" /\ lastOp = "load" /\ loaded.some /\ loaded = saved

\* ============================================ submission during an attempt
\* C28: a submission signalled during a connection attempt stays in the slot:
\* the step that ends an attempt leaves the slot as it is, a pending
\* submission is in the slot until the worker takes it, and once an attempt
\* has connected the worker takes nothing more, so the record saved is the
\* one that was tried.
C28_LaterSubmissionKept ==
    /\ [][connAttempts' # connAttempts => (sig' = sig /\ pending' = pending)]_vars
    /\ [][provConnected => (consumed' = consumed /\ setup_info' = setup_info)]_vars
    /\ [](pending > 0 => sig = Some(subLog[Len(subLog)]))
    /\ []((provConnected /\ saved.some) => saved = Some(subLog[seenAt]))

\* A first attempt has just failed; the submission made during it is in the
\* slot for the next iteration.
C28_Witness ==
    /\ pc = "w_scan"
    /\ consumed = 1
    /\ connAttempts = 1
    /\ ~provConnected
    /\ pending = 1
    /\ sig = Some(subLog[2])
    /\ subLog[2] # subLog[1]

\* ======================================================== end broadcast
AllExited == \A id \in WebIds : webTask[id] = "exited"

\* C21: the end broadcast reaches every web task: once signal_end() was
\* called every task of the pool stops serving and exits (or the device has
\* restarted), whether it was idle or serving at that moment, and a task
\* that has exited stays so: it wakes on the broadcast once.
C21_EndReachesWebTasks ==
    /\ endSignalled ~> (AllExited \/ pc = "restart")
    /\ [][\A id \in WebIds : webTask[id] = "exited" => webTask'[id] = "exited"]_vars
    /\ []((\E id \in WebIds : webTask[id] = "exited") => endSignalled)

\* The broadcast fired with one task serving; the idle one has exited.
C21_Witness ==
    /\ endSignalled
    /\ \E id \in WebIds : webTask[id] = "serving"
    /\ \E id \in WebIds : webTask[id] = "exited"

\* ===================================================== reconnection backoff
\* C29: reconnection backoff in the connection task: a connect is called at
\* least wifi_reconnect_time after the last disconnect event the task
\* received and after the last failed connect, a failed connect is followed
\* by the delay and then by the top of the loop only, the top of the loop
\* calls connect at once when the station is not connected, and after a
\* failed connect the next connect always comes (while the clock has room
\* for the delay).
C29_ReconnectBackoff ==
    /\ [][(cpc' = "c_connecting" /\ cpc # "c_connecting" /\ lastDownAt >= 0) =>
            now' - lastDownAt >= wifi_reconnect_time]_vars
    /\ [][(cpc = "c_connecting" /\ cpc' # cpc /\ staState' # "Connected") =>
            (cpc' = "c_fail_backoff" /\ lastDownAt' = now)]_vars
    /\ [][(cpc = "c_fail_backoff" /\ cpc' # cpc) =>
            (cpc' = "c_top" /\ now' - lastDownAt >= wifi_reconnect_time)]_vars
    /\ [][(cpc = "c_wait" /\ cpc' = "c_backoff") => lastDownAt' = now]_vars
    /\ [][(cpc = "c_top" /\ staState # "Connected" /\ cpc' # cpc) =>
            (cpc' = "c_connecting" /\ now' = now)]_vars
    /\ (cpc = "c_fail_backoff" ~>
          (cpc = "c_connecting" \/ now + wifi_reconnect_time > MaxTime))

\* A connect that follows two failed connects, with no stop signalled.
C29_Witness ==
    /\ cpc = "c_connecting"
    /\ stopLog = <<>>
    /\ wifi_reconnect_time = 300
    /\ lastDownAt >= 100 + 2 * 300
    /\ now - lastDownAt >= 300
    /\ staState = "Disconnected"

\* ==================================================== stop and restart
\* C30: the stop/restart protocol while the station is connected: a true
\* value taken in the connected wait leads to the disconnect call and then
\* to the radio stop call; once stopped the task stays stopped, whatever
\* true values it takes, and leaves on a false value only, to the radio
\* start call, which is followed by the delay before any connect; a connect
\* is entered from the top of the loop or from the delay, never from the
\* stopped task. A false value taken in the connected wait leads back to
\* the top of the loop with no time passed, the station state and the radio
\* as they were.
C30_StopRestartProtocol ==
    /\ [][(cpc = "c_wait" /\ staState = "Connected" /\ stop_signal = StopVal(TRUE)
             /\ cpc' # cpc) => cpc' = "c_disconnecting"]_vars
    /\ [][(cpc = "c_disconnecting" /\ cpc' # cpc) => cpc' = "c_stopping"]_vars
    /\ [][(cpc = "c_stopping" /\ cpc' # cpc) => cpc' = "c_stopped"]_vars
    /\ [][(cpc = "c_stopped" /\ stop_signal # StopVal(FALSE)) => cpc' = "c_stopped"]_vars
    /\ [][(cpc = "c_stopped" /\ cpc' # cpc) =>
            (cpc' = "c_starting" /\ stop_signal' = NoStop)]_vars
    /\ [][(cpc = "c_starting" /\ cpc' # cpc) => cpc' = "c_backoff"]_vars
    /\ [][(cpc' = "c_connecting" /\ cpc' # cpc) => cpc \in {"c_top", "c_backoff"}]_vars
    /\ [][(cpc = "c_wait" /\ staState = "Connected" /\ stop_signal = StopVal(FALSE)
             /\ cpc' # cpc) =>
            (cpc' = "c_top" /\ now' = now /\ staState' = staState /\ radioOn' = radioOn
             /\ lastDownAt' = lastDownAt)]_vars

\* The task was stopped, took a second true value while stopped, and has
\* restarted the radio on the false value that followed.
C30_Witness ==
    /\ cpc = "c_backoff"
    /\ stopLog = <<TRUE, TRUE, FALSE>>
    /\ stop_signal = NoStop
    /\ staState = "Started"
    /\ radioOn
    /\ lastDownAt = -1

\* ================================================ stop while not connected
\* The connection task is connecting or waiting to connect.
NotConnectedPcs == {"c_connecting", "c_fail_backoff", "c_backoff"}

\* C31: a stop request is honoured only in the connected state: while the
\* task is connecting or backing off its steps leave the slot of stop_signal
\* as it is, with a true value pending a failed connect is still followed by
\* the delay and the next connect, the task goes to the disconnect call only
\* from the connected wait with the station connected and a true value in
\* the slot, the radio goes off only in the stop call that follows it, and
\* the slot always holds the latest value signalled, so a false value
\* signalled before the stop was taken replaces it.
C31_StopOnlyWhenConnected ==
    /\ [][((cpc \in NotConnectedPcs \/ (cpc = "c_top" /\ staState # "Connected"))
             /\ stopLog' = stopLog) => stop_signal' = stop_signal]_vars
    /\ [][(cpc = "c_connecting" /\ stop_signal = StopVal(TRUE) /\ cpc' # cpc
             /\ staState' # "Connected") => cpc' = "c_fail_backoff"]_vars
    /\ [][(cpc = "c_fail_backoff" /\ stop_signal.some /\ cpc' # cpc) => cpc' = "c_top"]_vars
    /\ [][(cpc = "c_top" /\ staState # "Connected" /\ stop_signal.some /\ cpc' # cpc) =>
            cpc' = "c_connecting"]_vars
    /\ [][(cpc' = "c_disconnecting" /\ cpc' # cpc) =>
            (cpc = "c_wait" /\ staState = "Connected" /\ stop_signal = StopVal(TRUE))]_vars
    /\ [][(radioOn /\ ~radioOn') => cpc = "c_stopping"]_vars
    /\ [][(cpc' = "c_stopping" /\ cpc' # cpc) => cpc = "c_disconnecting"]_vars
    /\ [](stop_signal.some => stop_signal = StopVal(stopLog[Len(stopLog)]))

\* A true value was signalled and replaced by a false one before the task
\* took it; the task is at a connect that follows a failed one, radio on.
C31_Witness ==
    /\ cpc = "c_connecting"
    /\ stopLog = <<TRUE, FALSE>>
    /\ stop_signal = StopVal(FALSE)
    /\ staState = "Disconnected"
    /\ radioOn
    /\ lastDownAt >= 100
    /\ now - lastDownAt >= wifi_reconnect_time

====
